---- MODULE Spec2Model ----
(***************************************************************************)
(* The notification store of packages/notifier (store.ts) and the          *)
(* chainable facade on top of it (notify.ts), as a state machine.          *)
(*                                                                         *)
(* The host is a single JavaScript thread: every store function runs to    *)
(* completion, so each exported function is one action.  The only          *)
(* concurrency is time: setTimeout callbacks (the auto-dismiss timer and   *)
(* the deferred removal of dismiss) are queued by the host and run between *)
(* calls, earliest due first, and among equal due times in the order they  *)
(* were scheduled.  Time is Date.now() in milliseconds.                    *)
(***************************************************************************)
EXTENDS Integers, Sequences, FiniteSets, TLC

\* ------------------------------------------------------------------ bounds
\* Last instant of the clock that is explored, in Spec and SpecTimer.
MaxTime == 1500
\* Last instant of the clock that is explored in SpecFacade.
MaxFacadeTime == 600
\* Most host timers pending at once.
MaxTimers == 3
\* Most confirm resolvers ever parked.
MaxResolvers == 2
\* Most calls made into the store in one run of Spec (timer callbacks are not
\* counted).
MaxCalls == 3
\* Most calls made in one run of SpecTimer.
MaxTimerCalls == 5
\* Most calls made in one run of SpecFacade.
MaxFacadeCalls == 4
\* Most calls made in one run of SpecEvict.
MaxEvictCalls == 4
\* Most calls made in one run of SpecPromise.
MaxPromiseCalls == 3
\* Most calls made in one run of SpecChain.
MaxChainCalls == 3
\* Most calls made in one run of SpecListen.
MaxListenCalls == 5
\* Most calls made in one run of SpecDismiss.
MaxDismissCalls == 4
\* Most calls made in one run of SpecOptions.
MaxOptionCalls == 3
MaxUpdateCalls == 4
MaxDurationCalls == 4
MaxConfigCalls == 4
MaxCallbackCalls == 4
MaxResetCalls == 5

\* ------------------------------------------------------- program constants
\* Defaults.DURATION_MS
DURATION_MS == 3000
\* Defaults.MAX_VISIBLE
MAX_VISIBLE == 5
\* the delay of the deferred removal in dismiss
GRACE_MS == 300

\* ------------------------------------------------------------ input domains
Ids == {"a", "b", "c"}
\* the ids the calls of Spec are made on
CoreIds == {"a", "b"}
\* the id the calls of SpecTimer are made on
TimerIds == {"a"}
\* the excludeId of enforceMaxVisible when it names no resident item
NoId == "none"
Messages == {"m"}
AutoStates == {"success", "error", "info"}
States == {"idle", "loading", "confirm"} \cup AutoStates
\* states handed to setState
StateInputs == {"loading", "success"}
\* reasons handed to dismiss by callers (the renderer and the facade)
ReasonInputs == {"manual", "click"}
\* the instants the clock is stepped by
Steps == {500}
\* an absent callback or action
None == "none"
\* a key that is present in an options object with the value undefined
Undefined == "undefined"
\* the callbacks handed to subscribe
Listeners == {"l1", "l2"}

\* An options object: an absent key is <<>> (duration) or None.
NoOptions ==
    [duration |-> <<>>, action |-> None, onOpen |-> None, onClose |-> None,
     onDismiss |-> None, onUpdate |-> None]
OptionInputs ==
    { NoOptions,
      [NoOptions EXCEPT !.duration = <<0>>],
      [NoOptions EXCEPT !.duration = <<1000>>] }

\* options that carry an action and callbacks
RichOptionInputs ==
    { NoOptions,
      [NoOptions EXCEPT !.action = "action1", !.onOpen = "onOpen",
                        !.onUpdate = "onUpdate"],
      [NoOptions EXCEPT !.action = "action2"],
      [NoOptions EXCEPT !.action = Undefined],
      [NoOptions EXCEPT !.duration = <<1000>>, !.onDismiss = "onDismiss"] }

Resolvers == 1..MaxResolvers

VARIABLES
    now,              \* Date.now()
    notifications,    \* the Map id -> NotifyItem (a function on the resident ids)
    keys,             \* the insertion order of that Map
    dismissTimeouts,  \* the Map id -> timer handle (0: no entry)
    timers,           \* the host's pending setTimeout callbacks, in scheduling order
    listeners,        \* the Set of listeners, in insertion order
    resolved,         \* per resolver, the values it has been invoked with
    nextResolver,     \* the next resolver to be parked
    calls,            \* calls the run may still make
    horizon,          \* the last instant of the clock the run explores
    events,           \* what the last step invoked: callbacks, resolvers, broadcasts
    watch,            \* per id, the auto-dismiss run in progress (see WatchSet)
    stale,            \* the handles of the callbacks the last resetStore found pending
    globalConfig,     \* notify.ts: the global container configuration
    instances,        \* per id a facade instance was made for, its mergedOptions
    promises          \* the ids whose promise() call is awaiting its promise

facadeVars == <<globalConfig, instances, promises>>

vars == <<now, notifications, keys, dismissTimeouts, timers, listeners, resolved,
          nextResolver, calls, horizon, events, watch, stale, globalConfig,
          instances, promises>>

\* ----------------------------------------------------------------- helpers
Event(op, id, a1, a2, n) == [op |-> op, id |-> id, a1 |-> a1, a2 |-> a2, n |-> n]

Log(S, e) == [S EXCEPT !.events = Append(@, e)]

Bool(b) == IF b THEN "true" ELSE "false"

\* The module state the store functions work on.
Store ==
    [notifications |-> notifications, keys |-> keys,
     dismissTimeouts |-> dismissTimeouts, timers |-> timers,
     listeners |-> listeners, resolved |-> resolved, events |-> <<>>]

Commit(S) ==
    /\ notifications' = S.notifications
    /\ keys' = S.keys
    /\ dismissTimeouts' = S.dismissTimeouts
    /\ timers' = S.timers
    /\ listeners' = S.listeners
    /\ resolved' = S.resolved
    /\ events' = S.events

Has(S, id) == id \in DOMAIN S.notifications

\* Map.set: a new key goes to the end of the insertion order.
MapSet(S, id, item) ==
    [S EXCEPT !.notifications = [k \in DOMAIN S.notifications \cup {id} |->
                                    IF k = id THEN item ELSE S.notifications[k]],
              !.keys = IF Has(S, id) THEN @ ELSE Append(@, id)]

\* Map.delete
MapDelete(S, id) ==
    [S EXCEPT !.notifications = [k \in DOMAIN S.notifications \ {id} |->
                                    S.notifications[k]],
              !.keys = SelectSeq(@, LAMBDA k : k # id)]

\* A handle no pending timer and no registry entry carries.
NewHandle(S) ==
    LET used == {S.timers[i].h : i \in 1..Len(S.timers)}
                  \cup {S.dismissTimeouts[i] : i \in Ids}
    IN  CHOOSE h \in 1..(Cardinality(used) + 1) :
            /\ h \notin used
            /\ \A g \in 1..(h - 1) : g \in used

\* The host clamps a negative delay to zero.
Delay(ms) == IF ms < 0 THEN 0 ELSE ms

\* setTimeout(callback, ms); the callback is named by kind, id and the onClose
\* it has captured.
SetTimeout(S, h, kind, id, ms, onClose) ==
    [S EXCEPT !.timers = Append(@, [h |-> h, kind |-> kind, id |-> id,
                                     due |-> now + Delay(ms), onClose |-> onClose])]

ClearTimeout(S, h) == [S EXCEPT !.timers = SelectSeq(@, LAMBDA t : t.h # h)]

\* The resolver of a confirm promise is called with a value.
Invoke(S, r, b) ==
    Log([S EXCEPT !.resolved[r] = Append(@, b)], Event("resolver", "", Bool(b), "", r))

\* ------------------------------------------------------------ store.ts
\* invokes the listeners last subscribed first
emit_reversed(S) ==
    [S EXCEPT !.events = @ \o <<Event("emit", "", "", "", Len(S.listeners))>>
                           \o [i \in 1..Len(S.listeners) |->
                                  Event("listener", S.listeners[Len(S.listeners) + 1 - i],
                                        "", "", i)]]

emit(S) ==
    [S EXCEPT !.events = @ \o <<Event("emit", "", "", "", Len(S.listeners))>>
                           \o [i \in 1..Len(S.listeners) |->
                                  Event("listener", S.listeners[i], "", "", i)]]

\* listeners.add(listener): a Set keeps the first insertion of a member
subscribe(S, listener) ==
    [S EXCEPT !.listeners =
        IF \E i \in 1..Len(@) : @[i] = listener THEN @ ELSE Append(@, listener)]

\* the function subscribe returns: listeners.delete(listener)
detach(S, listener) ==
    [S EXCEPT !.listeners = SelectSeq(@, LAMBDA l : l # listener)]

\* forgets the registry entry and leaves the host's timer pending
clearDismissTimeout_forgetsOnly(S, id) == [S EXCEPT !.dismissTimeouts[id] = 0]

clearDismissTimeout(S, id) ==
    LET timeout == S.dismissTimeouts[id]
    IN  IF timeout # 0
        THEN [ClearTimeout(S, timeout) EXCEPT !.dismissTimeouts[id] = 0]
        ELSE S

shouldAutoDismiss_anyState(state) == TRUE

shouldAutoDismiss(state) == state \in {"success", "error", "info"}

\* dismiss resolves a pending confirm as false
autoResolve_skipped(S, item) == S

autoResolve(S, item) ==
    IF item.confirmResolver # 0 THEN Invoke(S, item.confirmResolver, FALSE) ELSE S

\* invokes onDismiss after the broadcast
dismiss_lateOnDismiss(S, id, reason) ==
    IF ~Has(S, id) THEN S
    ELSE
    LET item == S.notifications[id]
        S1 == Log(clearDismissTimeout(S, id), Event("dismiss", id, reason, "", 0))
        S2 == autoResolve(S1, item)
        S3 == MapSet(S2, id, [item EXCEPT !.visible = FALSE, !.confirmResolver = 0])
        S4 == emit(S3)
        S5 == IF item.options.onDismiss # None
              THEN Log(S4, Event("onDismiss", id, reason, "", 0)) ELSE S4
    IN  SetTimeout(S5, NewHandle(S5), "remove", id, GRACE_MS, item.options.onClose)

dismiss(S, id, reason) ==
    IF ~Has(S, id) THEN S
    ELSE
    LET item == S.notifications[id]
        S1 == Log(clearDismissTimeout(S, id), Event("dismiss", id, reason, "", 0))
        S2 == autoResolve(S1, item)
        S3 == IF item.options.onDismiss # None
              THEN Log(S2, Event("onDismiss", id, reason, "", 0)) ELSE S2
        S4 == MapSet(S3, id, [item EXCEPT !.visible = FALSE, !.confirmResolver = 0])
        S5 == emit(S4)
    IN  SetTimeout(S5, NewHandle(S5), "remove", id, GRACE_MS, item.options.onClose)

setupAutoDismiss(S, id, duration) ==
    LET S1 == clearDismissTimeout(S, id)
        h == NewHandle(S1)
    IN  [SetTimeout(S1, h, "auto", id, duration, None)
            EXCEPT !.dismissTimeouts[id] = h]

\* the new options replace the old ones
SpreadOptions_replaces(old, new) == new

\* { ...old, ...new }
SpreadOptions(old, new) ==
    [duration |-> IF new.duration # <<>> THEN new.duration ELSE old.duration,
     action |-> IF new.action # None THEN new.action ELSE old.action,
     onOpen |-> IF new.onOpen # None THEN new.onOpen ELSE old.onOpen,
     onClose |-> IF new.onClose # None THEN new.onClose ELSE old.onClose,
     onDismiss |-> IF new.onDismiss # None THEN new.onDismiss ELSE old.onDismiss,
     onUpdate |-> IF new.onUpdate # None THEN new.onUpdate ELSE old.onUpdate]

\* value ?? default
OrElse(value, default) == IF value = <<>> THEN default ELSE value[1]

\* invokes onOpen on every call, resident or not
setState_alwaysOpens(S, id, state, message, options) ==
    LET S1 == clearDismissTimeout(S, id)
        existing == Has(S1, id)
        old == S1.notifications[id]
        prevState == IF existing THEN old.state ELSE "idle"
        mergedOptions ==
            [SpreadOptions(IF existing THEN old.options ELSE NoOptions, options)
                EXCEPT !.action = IF options.action \notin {None, Undefined}
                                  THEN options.action
                                  ELSE IF existing THEN old.options.action ELSE None]
        isStateChange == existing /\ state # prevState
        S2 == IF isStateChange /\ mergedOptions.onUpdate # None
              THEN Log(S1, Event("onUpdate", id, state, prevState, 0)) ELSE S1
        item == [id |-> id, state |-> state, message |-> message,
                 options |-> mergedOptions, visible |-> TRUE, prevState |-> prevState,
                 confirmResolver |-> IF existing THEN old.confirmResolver ELSE 0,
                 createdAt |-> IF existing THEN old.createdAt ELSE now,
                 stateStartedAt |-> IF isStateChange THEN now
                                    ELSE IF existing THEN old.stateStartedAt ELSE now,
                 paused |-> FALSE, remainingTime |-> <<>>]
        S3 == MapSet(S2, id, item)
        S4 == IF mergedOptions.onOpen # None
              THEN Log(S3, Event("onOpen", id, "", "", 0)) ELSE S3
        S5 == emit(S4)
    IN  IF shouldAutoDismiss(state) /\ mergedOptions.duration # <<0>>
        THEN setupAutoDismiss(S5, id, OrElse(mergedOptions.duration, DURATION_MS))
        ELSE S5

\* arms the dismiss timer only for an id that was resident
setState_armsResidentOnly(S, id, state, message, options) ==
    LET S1 == clearDismissTimeout(S, id)
        existing == Has(S1, id)
        old == S1.notifications[id]
        prevState == IF existing THEN old.state ELSE "idle"
        mergedOptions ==
            [SpreadOptions(IF existing THEN old.options ELSE NoOptions, options)
                EXCEPT !.action = IF options.action \notin {None, Undefined}
                                  THEN options.action
                                  ELSE IF existing THEN old.options.action ELSE None]
        isStateChange == existing /\ state # prevState
        S2 == IF isStateChange /\ mergedOptions.onUpdate # None
              THEN Log(S1, Event("onUpdate", id, state, prevState, 0)) ELSE S1
        item == [id |-> id, state |-> state, message |-> message,
                 options |-> mergedOptions, visible |-> TRUE, prevState |-> prevState,
                 confirmResolver |-> IF existing THEN old.confirmResolver ELSE 0,
                 createdAt |-> IF existing THEN old.createdAt ELSE now,
                 stateStartedAt |-> IF isStateChange THEN now
                                    ELSE IF existing THEN old.stateStartedAt ELSE now,
                 paused |-> FALSE, remainingTime |-> <<>>]
        S3 == MapSet(S2, id, item)
        S4 == IF ~existing /\ mergedOptions.onOpen # None
              THEN Log(S3, Event("onOpen", id, "", "", 0)) ELSE S3
        S5 == emit(S4)
    IN  IF existing /\ shouldAutoDismiss(state) /\ mergedOptions.duration # <<0>>
        THEN setupAutoDismiss(S5, id, OrElse(mergedOptions.duration, DURATION_MS))
        ELSE S5

setState(S, id, state, message, options) ==
    LET S1 == clearDismissTimeout(S, id)
        existing == Has(S1, id)
        old == S1.notifications[id]
        prevState == IF existing THEN old.state ELSE "idle"
        mergedOptions ==
            [SpreadOptions(IF existing THEN old.options ELSE NoOptions, options)
                EXCEPT !.action = IF options.action \notin {None, Undefined}
                                  THEN options.action
                                  ELSE IF existing THEN old.options.action ELSE None]
        isStateChange == existing /\ state # prevState
        S2 == IF isStateChange /\ mergedOptions.onUpdate # None
              THEN Log(S1, Event("onUpdate", id, state, prevState, 0)) ELSE S1
        item == [id |-> id, state |-> state, message |-> message,
                 options |-> mergedOptions, visible |-> TRUE, prevState |-> prevState,
                 confirmResolver |-> IF existing THEN old.confirmResolver ELSE 0,
                 createdAt |-> IF existing THEN old.createdAt ELSE now,
                 stateStartedAt |-> IF isStateChange THEN now
                                    ELSE IF existing THEN old.stateStartedAt ELSE now,
                 paused |-> FALSE, remainingTime |-> <<>>]
        S3 == MapSet(S2, id, item)
        S4 == IF ~existing /\ mergedOptions.onOpen # None
              THEN Log(S3, Event("onOpen", id, "", "", 0)) ELSE S3
        S5 == emit(S4)
    IN  IF shouldAutoDismiss(state) /\ mergedOptions.duration # <<0>>
        THEN setupAutoDismiss(S5, id, OrElse(mergedOptions.duration, DURATION_MS))
        ELSE S5

\* stamps every confirm record with the time of the call
setConfirmState_freshCreatedAt(S, id, message, options, resolver) ==
    LET S1 == clearDismissTimeout(S, id)
        existing == Has(S1, id)
        old == S1.notifications[id]
        prevState == IF existing THEN old.state ELSE "idle"
        mergedOptions == IF existing THEN SpreadOptions(old.options, options) ELSE options
        item == [id |-> id, state |-> "confirm", message |-> message,
                 options |-> mergedOptions, visible |-> TRUE, prevState |-> prevState,
                 confirmResolver |-> resolver,
                 createdAt |-> now,
                 stateStartedAt |-> now,
                 paused |-> FALSE, remainingTime |-> <<>>]
        S2 == MapSet(S1, id, item)
        S3 == IF ~existing /\ mergedOptions.onOpen # None
              THEN Log(S2, Event("onOpen", id, "", "", 0)) ELSE S2
    IN  emit(S3)

setConfirmState(S, id, message, options, resolver) ==
    LET S1 == clearDismissTimeout(S, id)
        existing == Has(S1, id)
        old == S1.notifications[id]
        prevState == IF existing THEN old.state ELSE "idle"
        mergedOptions == IF existing THEN SpreadOptions(old.options, options) ELSE options
        item == [id |-> id, state |-> "confirm", message |-> message,
                 options |-> mergedOptions, visible |-> TRUE, prevState |-> prevState,
                 confirmResolver |-> resolver,
                 createdAt |-> IF existing THEN old.createdAt ELSE now,
                 stateStartedAt |-> now,
                 paused |-> FALSE, remainingTime |-> <<>>]
        S2 == MapSet(S1, id, item)
        S3 == IF ~existing /\ mergedOptions.onOpen # None
              THEN Log(S2, Event("onOpen", id, "", "", 0)) ELSE S2
    IN  emit(S3)

resolveConfirm_keepsResolver(S, id, confirmed) ==
    IF Has(S, id) /\ S.notifications[id].confirmResolver # 0
    THEN Invoke(S, S.notifications[id].confirmResolver, confirmed)
    ELSE S

resolveConfirm(S, id, confirmed) ==
    IF Has(S, id) /\ S.notifications[id].confirmResolver # 0
    THEN LET item == S.notifications[id]
             resolver == item.confirmResolver
         IN  Invoke(MapSet(S, id, [item EXCEPT !.confirmResolver = 0]), resolver, confirmed)
    ELSE S

Max(a, b) == IF a >= b THEN a ELSE b

\* marks the item paused and leaves its timer armed
pauseTimer_keepsTimer(S, id) ==
    IF ~Has(S, id) \/ S.notifications[id].paused THEN S
    ELSE
    LET item == S.notifications[id]
        timeout == S.dismissTimeouts[id]
        elapsed == now - item.stateStartedAt
        duration == OrElse(item.options.duration, DURATION_MS)
        remaining == Max(0, duration - elapsed)
    IN  IF timeout # 0
        THEN emit(MapSet(S, id,
                         [item EXCEPT !.paused = TRUE, !.remainingTime = <<remaining>>]))
        ELSE S

pauseTimer(S, id) ==
    IF ~Has(S, id) \/ S.notifications[id].paused THEN S
    ELSE
    LET item == S.notifications[id]
        timeout == S.dismissTimeouts[id]
        elapsed == now - item.stateStartedAt
        duration == OrElse(item.options.duration, DURATION_MS)
        remaining == Max(0, duration - elapsed)
    IN  IF timeout # 0
        THEN emit(MapSet(clearDismissTimeout(S, id), id,
                         [item EXCEPT !.paused = TRUE, !.remainingTime = <<remaining>>]))
        ELSE S

\* resumes whether or not the item is paused
resumeTimer_unguarded(S, id) ==
    IF ~Has(S, id) THEN S
    ELSE
    LET item == S.notifications[id]
        remaining == OrElse(item.remainingTime, DURATION_MS)
        S1 == MapSet(S, id, [item EXCEPT !.paused = FALSE, !.remainingTime = <<>>,
                                         !.stateStartedAt = now])
        S2 == IF shouldAutoDismiss(item.state)
              THEN setupAutoDismiss(S1, id, remaining) ELSE S1
    IN  emit(S2)

resumeTimer(S, id) ==
    IF ~Has(S, id) \/ ~S.notifications[id].paused THEN S
    ELSE
    LET item == S.notifications[id]
        remaining == OrElse(item.remainingTime, DURATION_MS)
        S1 == MapSet(S, id, [item EXCEPT !.paused = FALSE, !.remainingTime = <<>>,
                                         !.stateStartedAt = now])
        S2 == IF shouldAutoDismiss(item.state)
              THEN setupAutoDismiss(S1, id, remaining) ELSE S1
    IN  emit(S2)

\* broadcasts also when the id is unknown
updateOptions_alwaysBroadcasts(S, id, options) ==
    IF ~Has(S, id) THEN emit(S)
    ELSE LET item == S.notifications[id]
         IN  emit(MapSet(S, id, [item EXCEPT !.options = SpreadOptions(@, options)]))

\* re-arms the dismiss timer with the duration it is given
updateOptions_rearms(S, id, options) ==
    IF ~Has(S, id) THEN S
    ELSE LET item == S.notifications[id]
             S1 == MapSet(S, id, [item EXCEPT !.options = SpreadOptions(@, options)])
             S2 == IF options.duration # <<>> /\ options.duration[1] # 0
                      /\ shouldAutoDismiss(item.state)
                   THEN setupAutoDismiss(clearDismissTimeout(S1, id), id,
                                         options.duration[1])
                   ELSE S1
         IN  emit(S2)

updateOptions(S, id, options) ==
    IF ~Has(S, id) THEN S
    ELSE LET item == S.notifications[id]
         IN  emit(MapSet(S, id, [item EXCEPT !.options = SpreadOptions(@, options)]))

\* forEach(id => dismiss(id, reason)) over a list of ids
RECURSIVE DismissEach(_, _, _)
DismissEach(S, ids, reason) ==
    IF ids = <<>> THEN S
    ELSE DismissEach(dismiss(S, Head(ids), reason), Tail(ids), reason)

dismissAll(S, reason) == DismissEach(S, S.keys, reason)

\* Array.prototype.sort is stable: insertion of each id after the last one
\* that is not younger.
RECURSIVE InsertByCreatedAt(_, _, _)
InsertByCreatedAt(S, sorted, id) ==
    IF sorted = <<>> THEN <<id>>
    ELSE IF S.notifications[Head(sorted)].createdAt - S.notifications[id].createdAt > 0
         THEN <<id>> \o sorted
         ELSE <<Head(sorted)>> \o InsertByCreatedAt(S, Tail(sorted), id)

RECURSIVE SortByCreatedAt(_, _, _)
SortByCreatedAt(S, sorted, rest) ==
    IF rest = <<>> THEN sorted
    ELSE SortByCreatedAt(S, InsertByCreatedAt(S, sorted, Head(rest)), Tail(rest))

\* the ids of getNotifications(), in its order
getNotifications(S) == SortByCreatedAt(S, <<>>, S.keys)

\* evicts only once the limit is exceeded
enforceMaxVisible_lateEviction(S, maxVisible, excludeId) ==
    LET items == getNotifications(S)
        visibleItems == SelectSeq(items, LAMBDA k : S.notifications[k].visible
                                                     /\ k # excludeId)
    IN  IF Len(visibleItems) > maxVisible
        THEN DismissEach(S, SubSeq(visibleItems, 1, Len(visibleItems) - maxVisible),
                         "replaced")
        ELSE S

enforceMaxVisible(S, maxVisible, excludeId) ==
    LET items == getNotifications(S)
        visibleItems == SelectSeq(items, LAMBDA k : S.notifications[k].visible
                                                     /\ k # excludeId)
    IN  IF Len(visibleItems) >= maxVisible
        THEN DismissEach(S, SubSeq(visibleItems, 1, Len(visibleItems) - maxVisible + 1),
                         "replaced")
        ELSE S

resetStore(S) ==
    [S EXCEPT !.timers = SelectSeq(@, LAMBDA t :
                             \A i \in Ids : S.dismissTimeouts[i] # t.h),
              !.notifications = <<>>,
              !.keys = <<>>,
              !.listeners = <<>>,
              !.dismissTimeouts = [i \in Ids |-> 0]]

\* --------------------------------------------------------- host callbacks
\* setTimeout(() => dismiss(id, TIMEOUT), duration)
autoDismissCallback(S, t) == dismiss(S, t.id, "timeout")

\* the callback dismiss defers by the grace delay
removeCallback(S, t) ==
    LET S1 == MapDelete(S, t.id)
        S2 == IF t.onClose # None THEN Log(S1, Event("onClose", t.id, "", "", 0)) ELSE S1
    IN  emit(S2)

\* The timer the host runs next: the earliest due, the first scheduled among
\* equals.
NextTimer ==
    CHOOSE i \in 1..Len(timers) :
        /\ \A j \in 1..Len(timers) : timers[i].due <= timers[j].due
        /\ \A j \in 1..(i - 1) : timers[j].due > timers[i].due

\* ------------------------------------------------- the observed timer run
(* watch[id] follows one auto-dismiss run of id from the outside: it starts   *)
(* when setState puts id into an auto-dismissing state with a duration d > 0  *)
(* at t0, follows pauseTimer and resumeTimer calls on id, and ends with any   *)
(* other call that touches id.  seg is the start of the current un-paused     *)
(* stretch, spent the un-paused time of the earlier stretches, n the number   *)
(* of pauses.  It is read by no store function.                               *)
Unwatched == [i \in Ids |-> <<>>]

Touch(ids) == [i \in Ids |-> IF i \in ids THEN <<>> ELSE watch[i]]

WatchSet(S, id, state) ==
    LET d == OrElse(S.notifications[id].options.duration, DURATION_MS)
    IN  IF state \in AutoStates /\ d > 0
        THEN [watch EXCEPT ![id] = <<[t0 |-> now, d |-> d, seg |-> now, spent |-> 0,
                                      n |-> 0, paused |-> FALSE]>>]
        ELSE Touch({id})

WatchPause(id) ==
    IF watch[id] # <<>> /\ ~watch[id][1].paused
       /\ watch[id][1].spent + (now - watch[id][1].seg) < watch[id][1].d
    THEN [watch EXCEPT ![id] = <<[@[1] EXCEPT !.paused = TRUE,
                                              !.spent = @ + (now - watch[id][1].seg),
                                              !.n = @ + 1]>>]
    ELSE Touch({id})

WatchResume(id) ==
    IF watch[id] # <<>> /\ watch[id][1].paused
    THEN [watch EXCEPT ![id] = <<[@[1] EXCEPT !.paused = FALSE, !.seg = now]>>]
    ELSE Touch({id})

\* ---------------------------------------------------------------- actions
InitStore ==
    /\ now = 0
    /\ notifications = <<>>
    /\ keys = <<>>
    /\ dismissTimeouts = [i \in Ids |-> 0]
    /\ timers = <<>>
    /\ listeners = <<>>
    /\ resolved = [r \in Resolvers |-> <<>>]
    /\ nextResolver = 1
    /\ events = <<>>
    /\ watch = Unwatched
    /\ stale = {}
    /\ globalConfig = [maxVisible |-> <<MAX_VISIBLE>>, defaultDuration |-> <<DURATION_MS>>]
    /\ instances = <<>>
    /\ promises = {}

Init ==
    /\ InitStore
    /\ calls = MaxCalls
    /\ horizon = MaxTime

\* A call from outside (the facade, the renderer, user code) that leaves the
\* store as S.
Call(S) ==
    /\ calls > 0
    /\ Len(S.timers) <= MaxTimers
    /\ calls' = calls - 1
    /\ Commit(S)
    /\ UNCHANGED <<now, horizon, stale>>

\* A call of a store function from outside the facade.
StoreCall(S) == Call(S) /\ UNCHANGED facadeVars

SetState(id, state, message, options) ==
    LET S == setState(Store, id, state, message, options)
    IN  /\ StoreCall(S)
        /\ watch' = WatchSet(S, id, state)
        /\ UNCHANGED nextResolver

SetConfirmState(id, message, options) ==
    /\ nextResolver <= MaxResolvers
    /\ StoreCall(setConfirmState(Store, id, message, options, nextResolver))
    /\ nextResolver' = nextResolver + 1
    /\ watch' = Touch({id})

ResolveConfirm(id, confirmed) ==
    /\ StoreCall(resolveConfirm(Store, id, confirmed))
    /\ watch' = Touch({id})
    /\ UNCHANGED nextResolver

PauseTimer(id) ==
    /\ StoreCall(pauseTimer(Store, id))
    /\ watch' = WatchPause(id)
    /\ UNCHANGED nextResolver

ResumeTimer(id) ==
    /\ StoreCall(resumeTimer(Store, id))
    /\ watch' = WatchResume(id)
    /\ UNCHANGED nextResolver

Dismiss(id, reason) ==
    /\ StoreCall(dismiss(Store, id, reason))
    /\ watch' = Touch({id})
    /\ UNCHANGED nextResolver

DismissAll(reason) ==
    /\ StoreCall(dismissAll(Store, reason))
    /\ watch' = Touch(Ids)
    /\ UNCHANGED nextResolver

EnforceMaxVisible(maxVisible, excludeId) ==
    /\ StoreCall(enforceMaxVisible(Store, maxVisible, excludeId))
    /\ watch' = Touch(Ids)
    /\ UNCHANGED nextResolver

UpdateOptions(id, options) ==
    /\ StoreCall(updateOptions(Store, id, options))
    /\ watch' = Touch({id})
    /\ UNCHANGED nextResolver

Subscribe(listener) ==
    /\ StoreCall(subscribe(Store, listener))
    /\ UNCHANGED <<nextResolver, watch>>

\* a call of the function an earlier subscribe(listener) returned
Unsubscribe(listener) ==
    /\ StoreCall(detach(Store, listener))
    /\ UNCHANGED <<nextResolver, watch>>

\* resetStore(); the callbacks it leaves pending in the host are noted in stale
ResetStore ==
    LET S == resetStore(Store)
    IN  /\ calls > 0
        /\ calls' = calls - 1
        /\ Commit(S)
        /\ stale' = {S.timers[i].h : i \in 1..Len(S.timers)}
        /\ watch' = Unwatched
        /\ UNCHANGED <<now, horizon, nextResolver, facadeVars>>

\* The host runs the next due timer callback.
FireTimer ==
    /\ timers # <<>>
    /\ LET i == NextTimer
           t == timers[i]
           S == [Store EXCEPT !.timers = SubSeq(timers, 1, i - 1)
                                          \o SubSeq(timers, i + 1, Len(timers))]
       IN  /\ t.due <= now
           /\ Commit(IF t.kind = "auto" THEN autoDismissCallback(S, t)
                     ELSE removeCallback(S, t))
           /\ stale' = stale \ {t.h}
    /\ UNCHANGED <<now, nextResolver, calls, horizon, watch>>
    /\ UNCHANGED facadeVars

\* Time passes, up to the next due timer.
Advance ==
    /\ \E t \in {now + d : d \in Steps} \cup {timers[i].due : i \in 1..Len(timers)} :
        /\ t > now
        /\ t <= horizon
        /\ \A i \in 1..Len(timers) : t <= timers[i].due
        /\ now' = t
    /\ events' = <<>>
    /\ UNCHANGED <<notifications, keys, dismissTimeouts, timers, listeners, resolved,
                   nextResolver, calls, horizon, watch, stale>>
    /\ UNCHANGED facadeVars

\* Every store function, called on two ids.
Next ==
    \/ \E id \in CoreIds, s \in StateInputs, m \in Messages, o \in OptionInputs :
          SetState(id, s, m, o)
    \/ \E id \in CoreIds, m \in Messages : SetConfirmState(id, m, NoOptions)
    \/ \E id \in CoreIds, b \in BOOLEAN : ResolveConfirm(id, b)
    \/ \E id \in CoreIds : PauseTimer(id)
    \/ \E id \in CoreIds : ResumeTimer(id)
    \/ \E id \in CoreIds, r \in ReasonInputs : Dismiss(id, r)
    \/ DismissAll("manual")
    \/ \E m \in 1..2 : EnforceMaxVisible(m, NoId)
    \/ \E id \in CoreIds, o \in OptionInputs \ {NoOptions} : UpdateOptions(id, o)
    \/ FireTimer
    \/ Advance

Spec == Init /\ [][Next]_vars

\* The calls that bear on one item's timer, made on one id, in longer runs.
InitTimer ==
    /\ InitStore
    /\ calls = MaxTimerCalls
    /\ horizon = MaxTime

NextTimerRun ==
    \/ \E id \in TimerIds, s \in StateInputs, m \in Messages, o \in OptionInputs :
          SetState(id, s, m, o)
    \/ \E id \in TimerIds : PauseTimer(id)
    \/ \E id \in TimerIds : ResumeTimer(id)
    \/ \E id \in TimerIds : Dismiss(id, "manual")
    \/ \E id \in TimerIds, o \in OptionInputs \ {NoOptions} : UpdateOptions(id, o)
    \/ FireTimer
    \/ Advance

SpecTimer == InitTimer /\ [][NextTimerRun]_vars

\* The store functions with listeners subscribed: records are made for one
\* id, the other functions are also called on an id that is never resident.
InitListen ==
    /\ InitStore
    /\ calls = MaxListenCalls
    /\ horizon = MaxFacadeTime

NextListen ==
    \/ \E l \in Listeners : Subscribe(l)
    \/ \E l \in Listeners : Unsubscribe(l)
    \/ \E id \in TimerIds, s \in StateInputs, m \in Messages : SetState(id, s, m, NoOptions)
    \/ \E id \in TimerIds, m \in Messages : SetConfirmState(id, m, NoOptions)
    \/ \E id \in CoreIds : ResolveConfirm(id, TRUE)
    \/ \E id \in CoreIds : PauseTimer(id)
    \/ \E id \in CoreIds : ResumeTimer(id)
    \/ \E id \in CoreIds : Dismiss(id, "manual")
    \/ \E id \in CoreIds : UpdateOptions(id, [NoOptions EXCEPT !.duration = <<1000>>])
    \/ FireTimer
    \/ Advance

SpecListen == InitListen /\ [][NextListen]_vars

\* setState and setConfirmState on one id with options that carry an action
\* and callbacks.
InitOptions ==
    /\ InitStore
    /\ calls = MaxOptionCalls
    /\ horizon = MaxFacadeTime

NextOptions ==
    \/ \E id \in TimerIds, s \in StateInputs, m \in Messages, o \in RichOptionInputs :
          SetState(id, s, m, o)
    \/ \E id \in TimerIds, m \in Messages, o \in RichOptionInputs :
          SetConfirmState(id, m, o)
    \/ \E id \in TimerIds : Dismiss(id, "manual")
    \/ FireTimer
    \/ Advance

SpecOptions == InitOptions /\ [][NextOptions]_vars

\* ------------------------------------------------------------ notify.ts
\* the orders in which generateId hands out ids: one never handed out before
IdOrder == <<"a", "b", "c">>

\* partial configurations handed to configure
\* (undefined holds the keys a config supplies with the value undefined)
ConfigInputs ==
    { [maxVisible |-> <<1>>, defaultDuration |-> <<>>, undefined |-> {}],
      [maxVisible |-> <<2>>, defaultDuration |-> <<>>, undefined |-> {}],
      [maxVisible |-> <<>>, defaultDuration |-> <<500>>, undefined |-> {}] }
\* options handed to the facade's creating functions
FacadeOptionInputs == {NoOptions}
\* states of the instance methods loading, success, error, info
InstanceStates == {"loading", "success"}

\* { ...globalConfig, ...config }
configure_replaces(config) ==
    [maxVisible |-> config.maxVisible, defaultDuration |-> config.defaultDuration]

configure(config) ==
    [k \in DOMAIN globalConfig |->
        IF k \in config.undefined THEN <<>>
        ELSE IF config[k] # <<>> THEN config[k] ELSE globalConfig[k]]

getConfig == globalConfig

generateId == IdOrder[Cardinality(DOMAIN instances) + 1]

\* globalConfig.maxVisible ?? Defaults.MAX_VISIBLE
Limit == OrElse(globalConfig.maxVisible, MAX_VISIBLE)

\* the mergedOptions of createNotifyInstance(id, baseOptions)
createNotifyInstance(baseOptions) ==
    SpreadOptions([NoOptions EXCEPT !.duration = globalConfig.defaultDuration],
                  baseOptions)

\* notify(message, options) and notify(options): message is <<>> when absent
notify(S, id, message, options) ==
    LET S1 == enforceMaxVisible(S, Limit, id)
    IN  IF message # <<>>
        THEN setState(S1, id, "info", message[1],
                      SpreadOptions([NoOptions EXCEPT
                                        !.duration = globalConfig.defaultDuration],
                                    options))
        ELSE S1

\* notify.loading, notify.success, notify.error
notifyState(S, id, state, message, options) ==
    LET S1 == enforceMaxVisible(S, Limit, id)
    IN  setState(S1, id, state, message, createNotifyInstance(options))

notifyInfo(S, id, message, options) ==
    LET S1 == enforceMaxVisible(S, Limit, id)
    IN  setState(S1, id, "info", message,
                 SpreadOptions([NoOptions EXCEPT
                                   !.duration = globalConfig.defaultDuration],
                               options))

\* notify.promise up to its await: the instance goes to loading
notifyPromise(S, id, message) ==
    LET S1 == enforceMaxVisible(S, Limit, id)
    IN  setState(S1, id, "loading", message, createNotifyInstance(NoOptions))

notifyConfirm(S, id, message, resolver) ==
    LET S1 == enforceMaxVisible(S, Limit, id)
    IN  setConfirmState(S1, id, message, createNotifyInstance(NoOptions), resolver)

\* The success and error entries of a PromiseOptions: absent, a static
\* string, a function of the settled value, or a function that throws.
PromiseOptionInputs ==
    { [success |-> "static", error |-> "static"],
      [success |-> "function", error |-> "absent"],
      [success |-> "absent", error |-> "function"],
      [success |-> "throws", error |-> "static"] }

\* the message promise() derives from an entry of its options
MessageOf(entry) ==
    CASE entry = "static" -> "m"
      [] entry = "function" -> "f(value)"
      [] OTHER -> "default"

\* promise() after its await.  The value p fulfilled with is "v", the failure
\* it rejected with is "e", what a throwing message function throws is
\* "thrown"; the call's own outcome is logged as settled.  The try block
\* holds the success function and instance.success, so a throw there goes
\* to the catch block like a rejection of p.
promiseSettled(S, id, fulfilled, opts, mergedOptions) ==
    LET caught == ~fulfilled \/ opts.success = "throws"
        err == IF fulfilled THEN "thrown" ELSE "e"
    IN  IF ~caught
        THEN Log(setState(S, id, "success", MessageOf(opts.success), mergedOptions),
                 Event("settled", id, "resolved", "v", 0))
        ELSE IF opts.error = "throws"
        THEN Log(S, Event("settled", id, "rejected", "thrown", 0))
        ELSE Log(setState(S, id, "error", MessageOf(opts.error), mergedOptions),
                 Event("settled", id, "rejected", err, 0))

\* A call of a facade function that makes an instance for a fresh id.
Creation(S, id, options) ==
    /\ Cardinality(DOMAIN instances) < Len(IdOrder)
    /\ Call(S)
    /\ instances' = [k \in DOMAIN instances \cup {id} |->
                        IF k = id THEN createNotifyInstance(options) ELSE instances[k]]
    /\ watch' = Touch(Ids)
    /\ UNCHANGED globalConfig

Configure(config) ==
    /\ Call(Store)
    /\ globalConfig' = configure(config)
    /\ UNCHANGED <<nextResolver, watch, instances, promises>>

Notify(message, options) ==
    /\ Creation(notify(Store, generateId, message, options), generateId, options)
    /\ UNCHANGED <<nextResolver, promises>>

NotifyState(state, message, options) ==
    /\ Creation(notifyState(Store, generateId, state, message, options), generateId, options)
    /\ UNCHANGED <<nextResolver, promises>>

NotifyInfo(message, options) ==
    /\ Creation(notifyInfo(Store, generateId, message, options), generateId, options)
    /\ UNCHANGED <<nextResolver, promises>>

NotifyPromise(message) ==
    /\ Creation(notifyPromise(Store, generateId, message), generateId, NoOptions)
    /\ promises' = promises \cup {generateId}
    /\ UNCHANGED nextResolver

NotifyConfirm(message) ==
    /\ nextResolver <= MaxResolvers
    /\ Creation(notifyConfirm(Store, generateId, message, nextResolver), generateId,
                NoOptions)
    /\ nextResolver' = nextResolver + 1
    /\ UNCHANGED promises

\* notify.dismiss(id)
NotifyDismiss(id) ==
    /\ Call(dismiss(Store, id, "manual"))
    /\ watch' = Touch({id})
    /\ UNCHANGED <<nextResolver, facadeVars>>

\* notify.dismiss()
NotifyDismissAll ==
    /\ Call(dismissAll(Store, "manual"))
    /\ watch' = Touch(Ids)
    /\ UNCHANGED <<nextResolver, facadeVars>>

\* a state method that enters the store under a newly generated id
InstanceState_freshId(id, state, message) ==
    /\ id \in DOMAIN instances
    /\ Cardinality(DOMAIN instances) < Len(IdOrder)
    /\ Call(setState(Store, generateId, state, message, instances[id]))
    /\ watch' = Touch({id})
    /\ UNCHANGED <<nextResolver, facadeVars>>

\* instance.loading, instance.success, instance.error, instance.info
InstanceState(id, state, message) ==
    /\ id \in DOMAIN instances
    /\ Call(setState(Store, id, state, message, instances[id]))
    /\ watch' = Touch({id})
    /\ UNCHANGED <<nextResolver, facadeVars>>

InstanceDismiss(id) ==
    /\ id \in DOMAIN instances
    /\ Call(dismiss(Store, id, "manual"))
    /\ watch' = Touch({id})
    /\ UNCHANGED <<nextResolver, facadeVars>>

InstanceUpdate(id, options) ==
    /\ id \in DOMAIN instances
    /\ Call(updateOptions(Store, id, options))
    /\ instances' = [instances EXCEPT ![id] = SpreadOptions(@, options)]
    /\ watch' = Touch({id})
    /\ UNCHANGED <<nextResolver, globalConfig, promises>>

\* instance.promise up to its await
InstancePromise(id, message) ==
    /\ id \in DOMAIN instances
    /\ id \notin promises
    /\ Call(setState(Store, id, "loading", message, instances[id]))
    /\ promises' = promises \cup {id}
    /\ watch' = Touch({id})
    /\ UNCHANGED <<nextResolver, globalConfig, instances>>

InstanceConfirm(id, message) ==
    /\ id \in DOMAIN instances
    /\ nextResolver <= MaxResolvers
    /\ Call(setConfirmState(Store, id, message, instances[id], nextResolver))
    /\ nextResolver' = nextResolver + 1
    /\ watch' = Touch({id})
    /\ UNCHANGED facadeVars

\* The awaited promise settles and promise() goes on: instance.success when it
\* fulfilled, instance.error when it rejected.
Settle(id, fulfilled, opts) ==
    /\ id \in promises
    /\ Commit(promiseSettled(Store, id, fulfilled, opts, instances[id]))
    /\ promises' = promises \ {id}
    /\ watch' = Touch({id})
    /\ UNCHANGED <<now, nextResolver, calls, horizon, stale, globalConfig, instances>>

InitFacade ==
    /\ InitStore
    /\ calls = MaxFacadeCalls
    /\ horizon = MaxFacadeTime

\* The facade's functions, a direct enforceMaxVisible, and the host.
NextFacade ==
    \/ \E c \in ConfigInputs : Configure(c)
    \/ \E m \in Messages, o \in FacadeOptionInputs : Notify(<<m>>, o)
    \/ Notify(<<>>, NoOptions)
    \/ \E st \in InstanceStates, m \in Messages, o \in FacadeOptionInputs :
          NotifyState(st, m, o)
    \/ \E m \in Messages, o \in FacadeOptionInputs : NotifyInfo(m, o)
    \/ \E m \in Messages : NotifyPromise(m)
    \/ \E m \in Messages : NotifyConfirm(m)
    \/ \E id \in Ids : NotifyDismiss(id)
    \/ NotifyDismissAll
    \/ \E id \in Ids, st \in InstanceStates, m \in Messages : InstanceState(id, st, m)
    \/ \E id \in Ids : InstanceDismiss(id)
    \/ \E id \in Ids : InstanceUpdate(id, [NoOptions EXCEPT !.duration = <<0>>])
    \/ \E id \in Ids, m \in Messages : InstancePromise(id, m)
    \/ \E id \in Ids, m \in Messages : InstanceConfirm(id, m)
    \/ \E id \in Ids, f \in BOOLEAN : Settle(id, f, [success |-> "static", error |-> "static"])
    \/ \E m \in 1..2, ex \in {NoId, "a"} : EnforceMaxVisible(m, ex)
    \/ FireTimer
    \/ Advance

SpecFacade == InitFacade /\ [][NextFacade]_vars

\* The calls that bear on eviction: creations through the facade under a
\* configured limit, dismissals, and enforceMaxVisible itself.
InitEvict ==
    /\ InitStore
    /\ calls = MaxEvictCalls
    /\ horizon = MaxFacadeTime

NextEvict ==
    \/ \E c \in {k \in ConfigInputs : k.maxVisible # <<>>} : Configure(c)
    \/ \E m \in Messages : Notify(<<m>>, NoOptions)
    \/ Notify(<<>>, NoOptions)
    \/ \E st \in InstanceStates, m \in Messages : NotifyState(st, m, NoOptions)
    \/ \E m \in Messages : NotifyConfirm(m)
    \/ \E id \in Ids : NotifyDismiss(id)
    \/ \E m \in 1..3, ex \in Ids \cup {NoId} : EnforceMaxVisible(m, ex)
    \/ FireTimer
    \/ Advance

SpecEvict == InitEvict /\ [][NextEvict]_vars

\* promise() and what can race it: a dismissal, the timers.
InitPromise ==
    /\ InitStore
    /\ calls = MaxPromiseCalls
    /\ horizon = MaxFacadeTime

NextPromise ==
    \/ \E m \in Messages : NotifyPromise(m)
    \/ \E id \in Ids, m \in Messages : InstancePromise(id, m)
    \/ \E id \in Ids, f \in BOOLEAN, o \in PromiseOptionInputs : Settle(id, f, o)
    \/ \E id \in Ids : NotifyDismiss(id)
    \/ FireTimer
    \/ Advance

SpecPromise == InitPromise /\ [][NextPromise]_vars

\* Chains of instance methods on the instances of notify.loading and
\* notify.success, with and without an onUpdate callback.
ChainMessages == {"L", "S"}
ChainOptionInputs == {NoOptions, [NoOptions EXCEPT !.onUpdate = "onUpdate"]}

InitChain ==
    /\ InitStore
    /\ calls = MaxChainCalls
    /\ horizon = MaxFacadeTime

NextChain ==
    \/ \E st \in InstanceStates, m \in ChainMessages, o \in ChainOptionInputs :
          NotifyState(st, m, o)
    \/ \E id \in Ids, st \in InstanceStates, m \in ChainMessages :
          InstanceState(id, st, m)
    \/ \E id \in Ids : InstanceDismiss(id)
    \/ \E id \in Ids : InstanceUpdate(id, [NoOptions EXCEPT !.duration = <<0>>])
    \/ \E id \in Ids, m \in ChainMessages : InstancePromise(id, m)
    \/ \E id \in Ids, m \in ChainMessages : InstanceConfirm(id, m)
    \/ \E id \in Ids, f \in BOOLEAN :
          Settle(id, f, [success |-> "static", error |-> "static"])
    \/ FireTimer
    \/ Advance

SpecChain == InitChain /\ [][NextChain]_vars

\* Dismissals of one item and of all, through the store and the facade, of
\* items with timers and with parked resolvers.
InitDismiss ==
    /\ InitStore
    /\ calls = MaxDismissCalls
    /\ horizon = MaxFacadeTime

NextDismiss ==
    \/ \E id \in CoreIds, s \in StateInputs, m \in Messages : SetState(id, s, m, NoOptions)
    \/ \E id \in CoreIds, m \in Messages : SetConfirmState(id, m, NoOptions)
    \/ \E r \in ReasonInputs : DismissAll(r)
    \/ NotifyDismissAll
    \/ \E id \in CoreIds : NotifyDismiss(id)
    \/ FireTimer
    \/ Advance

SpecDismiss == InitDismiss /\ [][NextDismiss]_vars

\* updateOptions and instance.update on items made by the facade: running,
\* paused, in confirm, dismissed.
UpdateInputs ==
    { [NoOptions EXCEPT !.duration = <<1000>>],
      [NoOptions EXCEPT !.duration = <<0>>],
      [NoOptions EXCEPT !.action = "action1", !.onUpdate = "onUpdate"] }

InitUpdate ==
    /\ InitStore
    /\ calls = MaxUpdateCalls
    /\ horizon = MaxFacadeTime

NextUpdate ==
    \/ \E st \in InstanceStates, m \in Messages : NotifyState(st, m, NoOptions)
    \/ \E id \in CoreIds, m \in Messages : SetConfirmState(id, m, NoOptions)
    \/ \E id \in CoreIds : PauseTimer(id)
    \/ \E id \in CoreIds : Dismiss(id, "manual")
    \/ \E id \in Ids, o \in UpdateInputs : UpdateOptions(id, o)
    \/ \E id \in Ids, o \in UpdateInputs : InstanceUpdate(id, o)
    \/ FireTimer
    \/ Advance

SpecUpdate == InitUpdate /\ [][NextUpdate]_vars

\* setState with the durations a caller can hand over, a negative one
\* included; a negative delay reaches the host's setTimeout as it is.
DurationInputs ==
    { NoOptions,
      [NoOptions EXCEPT !.duration = <<-100>>],
      [NoOptions EXCEPT !.duration = <<1000>>] }

InitDuration ==
    /\ InitStore
    /\ calls = MaxDurationCalls
    /\ horizon = MaxTime

NextDuration ==
    \/ \E id \in TimerIds, s \in StateInputs, m \in Messages, o \in DurationInputs :
          SetState(id, s, m, o)
    \/ \E id \in TimerIds : PauseTimer(id)
    \/ \E id \in TimerIds : ResumeTimer(id)
    \/ FireTimer
    \/ Advance

SpecDuration == InitDuration /\ [][NextDuration]_vars

\* configure between creations through the facade, with configs that supply
\* a key, leave it out, or supply it as undefined.
ConfigKeyInputs ==
    ConfigInputs \cup
    { [maxVisible |-> <<>>, defaultDuration |-> <<1000>>, undefined |-> {"maxVisible"}],
      [maxVisible |-> <<2>>, defaultDuration |-> <<>>, undefined |-> {"defaultDuration"}] }

InitConfig ==
    /\ InitStore
    /\ calls = MaxConfigCalls
    /\ horizon = MaxFacadeTime

NextConfig ==
    \/ \E c \in ConfigKeyInputs : Configure(c)
    \/ \E m \in Messages : Notify(<<m>>, NoOptions)
    \/ \E st \in InstanceStates, m \in Messages : NotifyState(st, m, NoOptions)
    \/ FireTimer
    \/ Advance

SpecConfig == InitConfig /\ [][NextConfig]_vars

\* Dismissals of items that carry onDismiss and onClose, by the instance, by
\* notify.dismiss, by eviction and by the timer, and instance methods that
\* show an item again.
CallbackOptionInputs ==
    { NoOptions, [NoOptions EXCEPT !.onDismiss = "onDismiss", !.onClose = "onClose"] }

InitCallback ==
    /\ InitStore
    /\ calls = MaxCallbackCalls
    /\ horizon = MaxFacadeTime

NextCallback ==
    \/ \E c \in ConfigInputs : Configure(c)
    \/ \E st \in InstanceStates, m \in Messages, o \in CallbackOptionInputs :
          NotifyState(st, m, o)
    \/ \E id \in Ids, m \in Messages : InstanceState(id, "success", m)
    \/ \E id \in Ids : InstanceDismiss(id)
    \/ \E id \in Ids : NotifyDismiss(id)
    \/ FireTimer
    \/ Advance

SpecCallback == InitCallback /\ [][NextCallback]_vars

\* resetStore between two rounds of calls on one id, with listeners and with
\* items that carry onDismiss and onClose.
InitReset ==
    /\ InitStore
    /\ calls = MaxResetCalls
    /\ horizon = MaxFacadeTime

NextReset ==
    \/ \E l \in Listeners : Subscribe(l)
    \/ \E id \in TimerIds, s \in StateInputs, m \in Messages, o \in CallbackOptionInputs :
          SetState(id, s, m, o)
    \/ \E id \in TimerIds : Dismiss(id, "manual")
    \/ ResetStore
    \/ FireTimer
    \/ Advance

SpecReset == InitReset /\ [][NextReset]_vars

\* ------------------------------------------------------------ observations
Resident(id) == id \in DOMAIN notifications

\* the last step ran dismiss on id with this reason
Dismissed(evs, id, reason) ==
    \E i \in 1..Len(evs) : evs[i].op = "dismiss" /\ evs[i].id = id /\ evs[i].a1 = reason

DismissedAnyhow(evs, id) ==
    \E i \in 1..Len(evs) : evs[i].op = "dismiss" /\ evs[i].id = id

\* the last step invoked resolver r with b
Invoked(evs, r, b) ==
    \E i \in 1..Len(evs) : evs[i].op = "resolver" /\ evs[i].n = r /\ evs[i].a1 = Bool(b)

\* r is the resolver parked on some resident item
Held(r) == \E id \in DOMAIN notifications : notifications[id].confirmResolver = r

\* an auto-dismiss callback is pending for id
AutoPending(id) == \E i \in 1..Len(timers) : timers[i].kind = "auto" /\ timers[i].id = id

Armed(id) == dismissTimeouts[id] # 0 \/ AutoPending(id)

\* ------------------------------------------------------------------ claims

\* C1: a confirm prompt never leaves its caller waiting: every resolver that
\* has been parked and is no longer held by a resident record (the record was
\* deleted, overwritten by another setConfirmState, or dismissed) has been
\* invoked.
C1_ConfirmNeverUnresolved ==
    \A r \in Resolvers : (r < nextResolver /\ ~Held(r)) => resolved[r] # <<>>

\* C2: resolveConfirm is idempotent: a call on an id with a parked resolver
\* that was never invoked invokes it once with the value of that call and
\* leaves confirmResolver null; a call on an id without a parked resolver
\* changes nothing and invokes nothing; so no resolver is ever invoked twice.
C2_ResolveConfirmIdempotent ==
    /\ [](\A r \in Resolvers : Len(resolved[r]) <= 1)
    /\ [][\A id \in Ids, b \in BOOLEAN :
            ResolveConfirm(id, b) =>
                IF Resident(id) /\ notifications[id].confirmResolver # 0
                THEN LET r == notifications[id].confirmResolver
                     IN  /\ resolved[r] = <<>>
                         /\ resolved' = [resolved EXCEPT ![r] = <<b>>]
                         /\ notifications'[id].confirmResolver = 0
                ELSE /\ UNCHANGED <<notifications, keys, dismissTimeouts, timers,
                                    listeners, resolved>>
                     /\ events' = <<>>]_vars

\* C2 witness: a confirm item whose resolver was invoked with true and
\* cleared, after a third call at the same instant that changed nothing.
C2_Witness ==
    /\ calls = MaxCalls - 3
    /\ now = 0
    /\ events = <<>>
    /\ \E id \in DOMAIN notifications, r \in Resolvers :
          /\ notifications[id].state = "confirm"
          /\ notifications[id].visible
          /\ notifications[id].confirmResolver = 0
          /\ resolved[r] = <<TRUE>>

\* C3: whenever dismiss runs (called, from dismissAll or enforceMaxVisible, or
\* from the timer) on an item with a pending resolver, that resolver is
\* invoked with false and cleared; no resolver is ever invoked twice, so one
\* consumed by resolveConfirm or by an earlier dismiss is not invoked again.
C3_ForcedConfirmResolution ==
    /\ [](\A r \in Resolvers : Len(resolved[r]) <= 1)
    /\ [][\A id \in Ids :
            (/\ Resident(id)
             /\ notifications[id].confirmResolver # 0
             /\ DismissedAnyhow(events', id))
            => /\ resolved'[notifications[id].confirmResolver] = <<FALSE>>
               /\ Invoked(events', notifications[id].confirmResolver, FALSE)
               /\ Resident(id)'
               /\ notifications'[id].confirmResolver = 0]_vars

\* C3 witness: the auto-dismiss timer has just dismissed an item whose
\* resolver was still pending, and the resolver got false.
C3_Witness ==
    \E id \in DOMAIN notifications, r \in Resolvers :
        /\ Dismissed(events, id, "timeout")
        /\ Invoked(events, r, FALSE)
        /\ resolved[r] = <<FALSE>>
        /\ ~notifications[id].visible

\* What an auto-dismiss run watched from outside must look like: while
\* paused the item is visible, paused, and remembers the time that was left;
\* while running it is visible until the un-paused time reaches d, gone
\* afterwards, and the only dismissal is the timeout, at that instant.  On a
\* run without pauses the record is deleted the grace delay later.
RunAsPromised(id) ==
    LET w == watch[id][1]
        left == w.d - w.spent
        due == w.seg + left
    IN  IF w.paused
        THEN /\ Resident(id)
             /\ notifications[id].visible
             /\ notifications[id].paused
             /\ notifications[id].remainingTime = <<left>>
        ELSE /\ now < due => (Resident(id) /\ notifications[id].visible)
             /\ now > due => ~(Resident(id) /\ notifications[id].visible)
             /\ now > due + GRACE_MS => ~Resident(id)
             /\ DismissedAnyhow(events, id) =>
                   (Dismissed(events, id, "timeout") /\ now = due)

\* C4: one pause and one resume preserve the remaining time.
C4_SinglePauseResume ==
    \A id \in Ids : (watch[id] # <<>> /\ watch[id][1].n = 1) => RunAsPromised(id)

\* C5: any number of pause/resume cycles preserve the remaining time (the
\* runs with a second or later pause).
C5_RepeatedPauseResume ==
    \A id \in Ids : (watch[id] # <<>> /\ watch[id][1].n >= 2) => RunAsPromised(id)

\* C8: a terminal state set with duration d > 0 and then left alone is visible
\* before t0+d, dismissed by timeout at t0+d and deleted by t0+d+grace.
C8_TerminalAutoDismiss ==
    \A id \in Ids : (watch[id] # <<>> /\ watch[id][1].n = 0) => RunAsPromised(id)

\* C9: a resident item in success, error or info whose duration is 0 has no
\* dismiss timer armed and is never dismissed by timeout.
C9_PersistentNeverArmed ==
    \A id \in DOMAIN notifications :
        (notifications[id].state \in AutoStates
         /\ notifications[id].options.duration = <<0>>)
        => (~Armed(id) /\ ~Dismissed(events, id, "timeout"))

\* C10: a resident item in loading or confirm has no dismiss timer armed and
\* is never dismissed by timeout.
C10_LoadingConfirmNeverArmed ==
    \A id \in DOMAIN notifications :
        notifications[id].state \in {"loading", "confirm"}
        => (~Armed(id) /\ ~Dismissed(events, id, "timeout"))

\* C10 witness: an item that went from success, where a timer was armed, to
\* loading, and has outlived the duration it had.
C10_Witness ==
    \E id \in DOMAIN notifications :
        /\ notifications[id].state = "loading"
        /\ notifications[id].prevState = "success"
        /\ notifications[id].options.duration = <<1000>>
        /\ notifications[id].visible
        /\ now >= notifications[id].stateStartedAt + 1000

\* the resident visible items
Visible == {id \in DOMAIN notifications : notifications[id].visible}

\* C6: the facade keeps the number of visible items within the configured
\* limit: no step that leaves the limit as it is takes the count from within
\* the limit to above it.
C6_CapacityBound ==
    [][(Cardinality(Visible) <= Limit /\ Limit' = Limit)
        => Cardinality(Visible') <= Limit]_vars

\* the ids dismiss ran on in the last step
DismissedIds(evs) == {id \in Ids : DismissedAnyhow(evs, id)}

\* what enforceMaxVisible(m, ex) must have done in a step
Evicted(m, ex) ==
    LET V == Visible \ {ex}
        c == Cardinality(V)
        D == DismissedIds(events')
    IN  /\ DOMAIN notifications' = DOMAIN notifications
        /\ \A id \in DOMAIN notifications \ D : notifications'[id] = notifications[id]
        /\ IF c < m
           THEN D = {}
           ELSE /\ D \subseteq V
                /\ Cardinality(D) = c - m + 1
                /\ Cardinality(Visible' \ {ex}) = m - 1
                /\ \A d \in D :
                      /\ Dismissed(events', d, "replaced")
                      /\ ~notifications'[d].visible
                      /\ \A v \in V \ D :
                            notifications[d].createdAt <= notifications[v].createdAt

\* C7: enforceMaxVisible(m, excludeId) dismisses nothing while fewer than m
\* other items are visible, and otherwise exactly the c-m+1 oldest visible
\* ones, with reason replaced, never excludeId or an invisible item; and a
\* creation of a notification C through the facade under maxVisible = 2, with
\* A (older) and B visible, leaves A dismissed as replaced and B, C visible.
C7_EvictionPolicy ==
    /\ [][\A m \in 1..3, ex \in Ids \cup {NoId} :
            EnforceMaxVisible(m, ex) => Evicted(m, ex)]_vars
    /\ [][\A A \in Ids, B \in Ids :
            (/\ DOMAIN instances' # DOMAIN instances
             /\ generateId \in DOMAIN notifications'
             /\ Limit = 2
             /\ A # B
             /\ Visible = {A, B}
             /\ \E i, j \in 1..Len(keys) :
                    i < j /\ getNotifications(Store)[i] = A
                          /\ getNotifications(Store)[j] = B)
            => /\ Dismissed(events', A, "replaced")
               /\ DismissedIds(events') = {A}
               /\ ~notifications'[A].visible
               /\ Visible' = {B, generateId}]_vars

\* C7 witness: under maxVisible = 2 the third creation has just evicted the
\* first item, and the second and third are visible.
C7_Witness ==
    /\ Limit = 2
    /\ DismissedIds(events) = {"a"}
    /\ Dismissed(events, "a", "replaced")
    /\ Visible = {"b", "c"}
    /\ "a" \in DOMAIN notifications
    /\ notifications["a"].createdAt <= notifications["b"].createdAt
    /\ notifications["b"].createdAt <= notifications["c"].createdAt

\* C12: setState and setConfirmState on an id that is not resident create a
\* visible record with createdAt = now and prevState = idle; no call on a
\* resident id changes its createdAt; a call that changes the state of a
\* resident item (setState with another state, setConfirmState) sets prevState
\* to the old state and stateStartedAt to now.
C12_UpsertCreatedAt ==
    [][\A id \in Ids :
         /\ (Resident(id) /\ Resident(id)')
               => notifications'[id].createdAt = notifications[id].createdAt
         /\ (~Resident(id) /\ Resident(id)')
               => /\ notifications'[id].visible
                  /\ notifications'[id].createdAt = now
                  /\ notifications'[id].prevState = "idle"
         /\ (Resident(id) /\ Resident(id)'
             /\ notifications'[id].state # notifications[id].state)
               => /\ notifications'[id].prevState = notifications[id].state
                  /\ notifications'[id].stateStartedAt = now]_vars

\* C12 witness: an item created at 0 has been through a later state change
\* and a later setConfirmState, and still carries createdAt = 0.
C12_Witness ==
    \E id \in DOMAIN notifications :
        /\ notifications[id].state = "confirm"
        /\ notifications[id].prevState = "success"
        /\ notifications[id].createdAt = 0
        /\ notifications[id].stateStartedAt > 0

\* the last step ended a promise() call on id with this outcome and value
Settled(evs, id, outcome, value) ==
    \E i \in 1..Len(evs) :
        /\ evs[i].op = "settled" /\ evs[i].id = id
        /\ evs[i].a1 = outcome /\ evs[i].a2 = value

\* C14: promise() puts the item in loading before p settles; when p fulfils
\* with v the item goes to success, with the message of the static string or
\* of the function applied to v, and the call resolves with v; when p rejects
\* with e the item goes to error and the call rejects with e; whether or not
\* the item was dismissed in the meantime.
C14_PromisePropagation ==
    /\ [][\A id \in Ids, m \in Messages :
            ((NotifyPromise(m) /\ id = generateId) \/ InstancePromise(id, m))
            => /\ Resident(id)'
               /\ notifications'[id].state = "loading"
               /\ id \in promises']_vars
    /\ [][\A id \in Ids, o \in PromiseOptionInputs :
            /\ Settle(id, TRUE, o)
                => /\ Settled(events', id, "resolved", "v")
                   /\ Resident(id)'
                   /\ notifications'[id].state = "success"
                   /\ o.success \in {"static", "function"}
                         => notifications'[id].message = MessageOf(o.success)
            /\ Settle(id, FALSE, o)
                => /\ Settled(events', id, "rejected", "e")
                   /\ Resident(id)'
                   /\ notifications'[id].state = "error"]_vars

\* the last step invoked onUpdate(id, state, prevState)
Updated(evs, id, state, prevState) ==
    \E i \in 1..Len(evs) :
        /\ evs[i].op = "onUpdate" /\ evs[i].id = id
        /\ evs[i].a1 = state /\ evs[i].a2 = prevState

\* a step that touched no item but the one of id, and did not remove it
OnlyItem(id) ==
    /\ DOMAIN notifications' \in {DOMAIN notifications, DOMAIN notifications \cup {id}}
    /\ \A k \in DOMAIN notifications \ {id} : notifications'[k] = notifications[k]

\* C11: every instance method enters the store with the instance's own id and
\* leaves the instance as it was, so a chain of calls touches one item only;
\* after a state method the item of that id is resident with the state and
\* message of that call; when the call changed the state of a resident item
\* and the instance has an onUpdate, it was invoked with (id, new, old) and
\* prevState is the old state (loading for notify.loading(L).success(S)).
C11_Chaining ==
    /\ [][\A id \in Ids, st \in InstanceStates, m \in ChainMessages :
            InstanceState(id, st, m)
            => /\ OnlyItem(id)
               /\ Resident(id)'
               /\ notifications'[id].state = st
               /\ notifications'[id].message = m
               /\ instances' = instances
               /\ (Resident(id) /\ notifications[id].state # st)
                     => /\ notifications'[id].prevState = notifications[id].state
                        /\ instances[id].onUpdate # None
                              => Updated(events', id, st, notifications[id].state)]_vars
    /\ [][\A id \in Ids, m \in ChainMessages :
            (\/ InstanceDismiss(id)
             \/ InstanceUpdate(id, [NoOptions EXCEPT !.duration = <<0>>])
             \/ InstancePromise(id, m)
             \/ InstanceConfirm(id, m)
             \/ \E f \in BOOLEAN :
                   Settle(id, f, [success |-> "static", error |-> "static"]))
            => /\ OnlyItem(id)
               /\ DOMAIN instances' = DOMAIN instances]_vars

\* C11 witness: notify.loading(L) followed by success(S) on its instance: one
\* resident item, in success with message S, prevState loading, and onUpdate
\* just invoked with (id, success, loading).
C11_Witness ==
    /\ DOMAIN notifications = {"a"}
    /\ DOMAIN instances = {"a"}
    /\ notifications["a"].state = "success"
    /\ notifications["a"].message = "S"
    /\ notifications["a"].prevState = "loading"
    /\ Updated(events, "a", "success", "loading")

\* the last step broadcast to the listeners
Broadcast(evs) == \E i \in 1..Len(evs) : evs[i].op = "emit"

\* the deferred removals pending for id
Removals(tms, id) == {i \in 1..Len(tms) : tms[i].kind = "remove" /\ tms[i].id = id}

\* C13: a dismissal of a visible item leaves the record resident with
\* visible = false and broadcasts; the record is deleted exactly the grace
\* interval later (the removals pending for it are all due then), in a step
\* of its own that broadcasts again.
C13_TwoPhaseRemoval ==
    [][\A id \in Ids :
         /\ (Resident(id) /\ notifications[id].visible /\ DismissedAnyhow(events', id))
               => /\ Resident(id)'
                  /\ ~notifications'[id].visible
                  /\ Broadcast(events')
                  /\ Removals(timers', id) # {}
                  /\ \A i \in Removals(timers', id) : timers'[i].due = now + GRACE_MS
         /\ (Resident(id) /\ ~Resident(id)')
               => /\ ~DismissedAnyhow(events', id)
                  /\ Broadcast(events')]_vars

\* the listeners the last step invoked, in the order of invocation
ListenerCalls(evs) ==
    LET calls_ == SelectSeq(evs, LAMBDA e : e.op = "listener")
    IN  [i \in 1..Len(calls_) |-> calls_[i].id]

\* the call on id of a function that returns early on an unknown id
OnUnknown(id) ==
    \/ Dismiss(id, "manual")
    \/ ResolveConfirm(id, TRUE)
    \/ PauseTimer(id)
    \/ ResumeTimer(id)
    \/ UpdateOptions(id, [NoOptions EXCEPT !.duration = <<1000>>])

\* C15: every step that changes the id-to-item mapping invokes every
\* subscribed listener; a call that is a no-op (on an unknown id, a pause of
\* a paused or timerless item, a resume of an item that is not paused, a
\* resolveConfirm without a parked resolver) invokes none.
C15_BroadcastAfterMutation ==
    /\ [][notifications' # notifications
            => \A i \in 1..Len(listeners) :
                  \E j \in 1..Len(ListenerCalls(events')) :
                      ListenerCalls(events')[j] = listeners[i]]_vars
    /\ [][\A id \in Ids :
            (\/ ~Resident(id) /\ OnUnknown(id)
             \/ /\ Resident(id)
                /\ \/ /\ notifications[id].paused \/ dismissTimeouts[id] = 0
                      /\ PauseTimer(id)
                   \/ ~notifications[id].paused /\ ResumeTimer(id)
                   \/ notifications[id].confirmResolver = 0 /\ ResolveConfirm(id, TRUE))
            => ListenerCalls(events') = <<>>]_vars

\* seq without its members equal to x, in the same order
Without(seq, x) == SelectSeq(seq, LAMBDA y : y # x)

\* calls is the registry reg invoked in its order, once per broadcast
RECURSIVE InRegistryOrder(_, _)
InRegistryOrder(calls_, reg) ==
    \/ calls_ = <<>>
    \/ /\ reg # <<>>
       /\ Len(calls_) >= Len(reg)
       /\ SubSeq(calls_, 1, Len(reg)) = reg
       /\ InRegistryOrder(SubSeq(calls_, Len(reg) + 1, Len(calls_)), reg)

\* C16: a newly subscribed listener comes after those subscribed before it,
\* a detached one leaves the registry and the others keep their order, no
\* other step changes the registry, and every broadcast invokes exactly the
\* registered listeners in that order; so a detached listener is not invoked
\* by later mutations while the others are.
C16_ListenerRegistry ==
    /\ [][\A l \in Listeners :
            /\ Subscribe(l) =>
                  listeners' = IF \E i \in 1..Len(listeners) : listeners[i] = l
                               THEN listeners ELSE Append(listeners, l)
            /\ Unsubscribe(l) => listeners' = Without(listeners, l)]_vars
    /\ [][listeners' # listeners
            => \E l \in Listeners : Subscribe(l) \/ Unsubscribe(l)]_vars
    /\ [][InRegistryOrder(ListenerCalls(events'), listeners')]_vars

\* C16 witness: l1 and l2 were subscribed in that order, l1 was detached,
\* and the fourth call, a mutation of item a, has just invoked l2 alone.
C16_Witness ==
    /\ listeners = <<"l2">>
    /\ calls = MaxListenCalls - 4
    /\ ListenerCalls(events) = <<"l2">>
    /\ Resident("a")

\* C17: dismiss, resolveConfirm, pauseTimer, resumeTimer and updateOptions on
\* an id that is not resident leave the items, the timer registry, the host's
\* timers and the listeners as they are and invoke nothing; a record appears
\* only through setState or setConfirmState on its id.
C17_UnknownIdNoOp ==
    /\ [][\A id \in Ids :
            (~Resident(id) /\ OnUnknown(id))
            => /\ UNCHANGED <<notifications, keys, dismissTimeouts, timers, listeners,
                              resolved>>
               /\ events' = <<>>]_vars
    /\ [][\A id \in Ids :
            (~Resident(id) /\ Resident(id)')
            => \/ \E s \in StateInputs, m \in Messages : SetState(id, s, m, NoOptions)
               \/ \E m \in Messages : SetConfirmState(id, m, NoOptions)]_vars

\* C17 witness: with a listener subscribed, an item resident and its timer
\* pending, a call on the unknown id b has just left everything as it was.
C17_Witness ==
    /\ listeners # <<>>
    /\ Resident("a")
    /\ ~Resident("b")
    /\ dismissTimeouts["a"] # 0
    /\ events = <<>>
    /\ calls = MaxListenCalls - 3
    /\ now = 0

\* what a call that dismisses every resident id with this reason must have
\* done: every item is still resident and invisible, was dismissed with the
\* reason, has no dismiss timer left and no resolver, a parked resolver got
\* false, and a removal of its own is due after the grace interval, none
\* sooner for an item that was visible.
AllDismissed(reason) ==
    /\ DOMAIN notifications' = DOMAIN notifications
    /\ \A id \in DOMAIN notifications :
          /\ Dismissed(events', id, reason)
          /\ ~notifications'[id].visible
          /\ ~Armed(id)'
          /\ notifications'[id].confirmResolver = 0
          /\ notifications[id].confirmResolver # 0
                => /\ Invoked(events', notifications[id].confirmResolver, FALSE)
                   /\ resolved'[notifications[id].confirmResolver] = <<FALSE>>
          /\ \E i \in Removals(timers', id) : timers'[i].due = now + GRACE_MS
          /\ notifications[id].visible
                => \A i \in Removals(timers', id) : timers'[i].due = now + GRACE_MS

\* C18: dismissAll(reason) and notify.dismiss() dismiss every resident id;
\* notify.dismiss(id) dismisses that item and leaves the others as they are.
C18_DismissAll ==
    /\ [][\A r \in ReasonInputs : DismissAll(r) => AllDismissed(r)]_vars
    /\ [][NotifyDismissAll => AllDismissed("manual")]_vars
    /\ [][\A id \in Ids :
            NotifyDismiss(id)
            => /\ Resident(id) => (Resident(id)' /\ ~notifications'[id].visible)
               /\ DismissedIds(events') \subseteq {id}
               /\ DOMAIN notifications' = DOMAIN notifications
               /\ \A k \in DOMAIN notifications \ {id} :
                      notifications'[k] = notifications[k]]_vars

\* the options a merge of new into old must give: a key new supplies takes
\* the new value, any other key keeps the old one
Merged(old, new) ==
    [k \in DOMAIN NoOptions |-> IF new[k] # NoOptions[k] THEN new[k] ELSE old[k]]

\* C19: after setState or setConfirmState on a resident item every option key
\* the call supplies has the new value and every other key, action included,
\* keeps its old value; setState keeps the old action also when the call's
\* action is undefined.
C19_OptionMerging ==
    /\ [][\A id \in TimerIds, s \in StateInputs, m \in Messages, o \in RichOptionInputs :
            (Resident(id) /\ SetState(id, s, m, o))
            => notifications'[id].options =
                  [Merged(notifications[id].options, o)
                      EXCEPT !.action = IF o.action \in {None, Undefined}
                                        THEN notifications[id].options.action
                                        ELSE o.action]]_vars
    /\ [][\A id \in TimerIds, m \in Messages, o \in RichOptionInputs :
            (Resident(id) /\ SetConfirmState(id, m, o))
            => notifications'[id].options = Merged(notifications[id].options, o)]_vars

\* C19 witness: an item that got action1 and its callbacks from one call and
\* a duration and onDismiss from a later one carries them all.
C19_Witness ==
    \E id \in DOMAIN notifications :
        /\ notifications[id].options.action = "action1"
        /\ notifications[id].options.onUpdate = "onUpdate"
        /\ notifications[id].options.duration = <<1000>>
        /\ notifications[id].options.onDismiss = "onDismiss"
        /\ calls = MaxOptionCalls - 3

\* the positions in evs of the invocations of the callback op on id
CallbackAt(evs, op, id) == {i \in 1..Len(evs) : evs[i].op = op /\ evs[i].id = id}

\* the positions in evs of the broadcasts
BroadcastAt(evs) == {i \in 1..Len(evs) : evs[i].op = "emit"}

C26_ResolverIffConfirm ==
    \A id \in DOMAIN notifications :
        (notifications[id].confirmResolver # 0) <=> (notifications[id].state = "confirm")

\* the auto-dismiss callbacks pending for id
AutoTimers(id) == {i \in 1..Len(timers) : timers[i].kind = "auto" /\ timers[i].id = id}

\* C27: at most one auto-dismiss timer is pending per id, and it is the one
\* the registry holds for that id: a superseded timer is cancelled, so only
\* the timer armed last can fire.
C27_OneTimerPerId ==
    \A id \in Ids :
        /\ Cardinality(AutoTimers(id)) <= 1
        /\ \A i \in AutoTimers(id) : timers[i].h = dismissTimeouts[id]

\* C27 witness: an item set at 0 and set again, in the same state, at 500 has
\* one timer pending, the one of the second call.
C27_Witness ==
    \E id \in DOMAIN notifications :
        /\ now = 500
        /\ notifications[id].createdAt = 0
        /\ notifications[id].options.duration = <<1000>>
        /\ Cardinality(AutoTimers(id)) = 1
        /\ \A i \in AutoTimers(id) : timers[i].due = 1500

\* C29: stateStartedAt changes only with the state: a step that leaves the
\* state of a resident item as it is (a same-state setState, a
\* setConfirmState on an item in confirm, an updateOptions) leaves
\* stateStartedAt as it is; a setState or setConfirmState that changes the
\* state sets it to the time of the call.
C29_StateStartedAt ==
    [][\A id \in CoreIds :
         (Resident(id) /\ Resident(id)')
         => /\ notifications'[id].state # notifications[id].state
                  => notifications'[id].stateStartedAt = now
            /\ (/\ notifications'[id].state = notifications[id].state
                /\ \/ \E s \in StateInputs, m \in Messages, o \in OptionInputs :
                         SetState(id, s, m, o)
                   \/ \E m \in Messages : SetConfirmState(id, m, NoOptions)
                   \/ \E o \in OptionInputs \ {NoOptions} : UpdateOptions(id, o))
                  => notifications'[id].stateStartedAt
                        = notifications[id].stateStartedAt]_vars

\* C30: a paused item has no dismiss timer armed and is not dismissed by
\* timeout.
C30_PausedNeverArmed ==
    \A id \in DOMAIN notifications :
        notifications[id].paused
        => (~Armed(id) /\ ~Dismissed(events, id, "timeout"))

\* C30 witness: an item paused at 500 with 1000 ms of its timer left is
\* still resident, visible and paused at 1500.
C30_Witness ==
    \E id \in DOMAIN notifications :
        /\ notifications[id].paused
        /\ notifications[id].visible
        /\ notifications[id].remainingTime = <<500>>
        /\ notifications[id].options.duration = <<1000>>
        /\ now = 1500

\* a step that leaves every record, the timer registry and the host's timers
\* as they were and makes no broadcast and no callback
Untouched == UNCHANGED <<notifications, keys, dismissTimeouts, timers>> /\ events' = <<>>

\* C28: pauseTimer on a resident item that is paused or has no timer in the
\* registry, and resumeTimer on a resident item that is not paused, change
\* nothing: records (paused, remainingTime, stateStartedAt included), timer
\* registry and pending timers stay as they were and nothing is broadcast.
C28_PauseResumeGuards ==
    [][\A id \in TimerIds :
         Resident(id)
         => /\ (PauseTimer(id) /\ (notifications[id].paused \/ dismissTimeouts[id] = 0))
                  => Untouched
            /\ (ResumeTimer(id) /\ ~notifications[id].paused) => Untouched]_vars

\* C28 witness: an item paused at 500 on which pauseTimer was called again:
\* it is still paused with the remaining time of the first pause (watch ends
\* with a call on a paused item that is not the resume).
C28_Witness ==
    \E id \in DOMAIN notifications :
        /\ notifications[id].paused
        /\ notifications[id].visible
        /\ notifications[id].remainingTime = <<2500>>
        /\ notifications[id].options.duration = <<>>
        /\ notifications[id].stateStartedAt = 0
        /\ watch[id] = <<>>
        /\ dismissTimeouts[id] = 0
        /\ now = 500

C23_Resurrection ==
    [][\A id \in Ids :
         (id \in DOMAIN instances /\ ~Resident(id) /\ Resident(id)')
         => LET item == notifications'[id]
                d == OrElse(item.options.duration, DURATION_MS)
            IN  /\ item.visible
                /\ item.prevState = "idle"
                /\ item.createdAt = now
                /\ item.stateStartedAt = now
                /\ ~item.paused
                /\ IF item.state \in AutoStates /\ d # 0
                   THEN /\ Cardinality(AutoTimers(id)') = 1
                        /\ \A i \in AutoTimers(id)' :
                              /\ timers'[i].due = now + d
                              /\ timers'[i].h = dismissTimeouts'[id]
                   ELSE ~Armed(id)']_vars

\* C23 witness: promise() settled after its item had been dismissed and
\* deleted: the item is back, in success straight from idle.
C23_Witness ==
    \E id \in DOMAIN notifications :
        /\ id \in DOMAIN instances
        /\ notifications[id].state = "success"
        /\ notifications[id].prevState = "idle"
        /\ notifications[id].createdAt = now
        /\ now >= GRACE_MS
        /\ Settled(events, id, "resolved", "v")
        /\ Armed(id)

\* C24: a setState to success, error or info that leaves the item with a
\* negative duration arms the timer for the default duration: one timer is
\* pending for the id, due DURATION_MS after the call.
C24_DurationGuard ==
    [][\A id \in TimerIds, s \in StateInputs \cap AutoStates, m \in Messages,
          o \in DurationInputs :
         (/\ SetState(id, s, m, o)
          /\ notifications'[id].options.duration # <<>>
          /\ notifications'[id].options.duration[1] < 0)
         => /\ Cardinality(AutoTimers(id)') = 1
            /\ \A i \in AutoTimers(id)' : timers'[i].due = now + DURATION_MS]_vars

\* what a config supplies for key k: its value, undefined included
Supplies(c, k) == c[k] # <<>> \/ k \in c.undefined

\* C25: getConfig() starts as the defaults; configure(c) gives every key c
\* supplies the value of c and leaves every other key as it was, and no other
\* step changes the configuration (so each key has the value of the last
\* config that supplied it, or its default); a creation through the facade
\* gives the new item the current defaultDuration, arms its timer with it,
\* and keeps the visible items within the current maxVisible.
C25_ConfigureMerge ==
    /\ getConfig = [maxVisible |-> <<MAX_VISIBLE>>, defaultDuration |-> <<DURATION_MS>>]
    /\ [][/\ \A c \in ConfigKeyInputs :
              Configure(c)
              => \A k \in DOMAIN getConfig :
                    getConfig'[k] = IF Supplies(c, k)
                                    THEN (IF k \in c.undefined THEN <<>> ELSE c[k])
                                    ELSE getConfig[k]
          /\ (\A c \in ConfigKeyInputs : ~Configure(c)) => (getConfig' = getConfig)
          /\ (DOMAIN instances' # DOMAIN instances)
             => \A id \in {generateId} :
                   LET item == notifications'[id]
                       c == Cardinality(Visible)
                   IN  /\ Resident(id)'
                       /\ item.options.duration = getConfig.defaultDuration
                       /\ Cardinality(Visible') = IF c + 1 <= Limit THEN c + 1 ELSE Limit
                       /\ (item.state \in AutoStates)
                             => /\ Cardinality(AutoTimers(id)') = 1
                                /\ \A i \in AutoTimers(id)' :
                                      timers'[i].due
                                         = now + OrElse(getConfig.defaultDuration,
                                                        DURATION_MS)]_vars

\* C25 witness: after configure({maxVisible: 1}) and
\* configure({defaultDuration: 500}) both values are in force: a creation
\* has left one item visible, with a timer of 500.
C25_Witness ==
    /\ getConfig = [maxVisible |-> <<1>>, defaultDuration |-> <<500>>]
    /\ Cardinality(DOMAIN notifications) = 2
    /\ \E id \in Visible :
          /\ Visible = {id}
          /\ notifications[id].options.duration = <<500>>
          /\ notifications[id].createdAt = now
          /\ \E i \in AutoTimers(id) : timers[i].due = now + 500

\* C21: in a step that runs dismiss(id, reason) on an item with onDismiss,
\* onDismiss(id, reason) is invoked after no broadcast of that dismissal and
\* before the broadcast that shows visible = false, and the removal is
\* queued for the grace delay later with the item's onClose; onClose(id) is
\* invoked only in a later step, that of a queued removal, once the record
\* is gone and before the only broadcast of that step; the reason is manual
\* for instance.dismiss() and notify.dismiss(id), replaced for an eviction
\* by a creation, timeout for the timer.
C21_DismissProtocol ==
    [][\A id \in Ids :
         LET dismissals == CallbackAt(events', "dismiss", id)
             onDismissAt == CallbackAt(events', "onDismiss", id)
             onCloseAt == CallbackAt(events', "onClose", id)
             broadcasts == BroadcastAt(events')
         IN  /\ \A d \in dismissals :
                   /\ Resident(id)' /\ ~notifications'[id].visible
                   /\ \E i \in Removals(timers', id) :
                         /\ timers'[i].due = now + GRACE_MS
                         /\ timers'[i].onClose = notifications[id].options.onClose
                   /\ (notifications[id].options.onDismiss # None)
                      => \E p \in onDismissAt :
                            /\ p > d
                            /\ events'[p].a1 = events'[d].a1
                            /\ \A q \in broadcasts : q < d \/ q > p
                            /\ \E q \in broadcasts : q > p
             /\ \A p \in onDismissAt :
                   \E d \in dismissals : d < p /\ events'[d].a1 = events'[p].a1
             /\ \A c \in onCloseAt :
                   /\ ~Resident(id)'
                   /\ dismissals = {} /\ onDismissAt = {}
                   /\ \E i \in Removals(timers, id) :
                         timers[i].onClose # None /\ timers[i].due <= now
                   /\ broadcasts # {}
                   /\ \A q \in broadcasts : q > c
             /\ (InstanceDismiss(id) \/ NotifyDismiss(id))
                => /\ Resident(id) => dismissals # {}
                   /\ \A d \in dismissals : events'[d].a1 = "manual"
             /\ (DOMAIN instances' # DOMAIN instances)
                => \A d \in dismissals : events'[d].a1 = "replaced"
             /\ (Len(timers) > 0 /\ FireTimer)
                => \A d \in dismissals : events'[d].a1 = "timeout"]_vars

\* C21 witness: the removal of a dismissed item has just run: the record is
\* gone and onClose was invoked before the broadcast.
C21_Witness ==
    \E id \in DOMAIN instances :
        /\ ~Resident(id)
        /\ CallbackAt(events, "onClose", id) # {}
        /\ Broadcast(events)

\* C31: no visible record is deleted: an item that is resident and visible
\* is resident after every step.
C31_VisibleNeverDeleted ==
    [][\A id \in Ids :
         (Resident(id) /\ notifications[id].visible) => Resident(id)']_vars

\* C33: every id with an entry in the timer registry is resident, visible
\* and in success, error or info.
C33_TimerOnlyForLiveItem ==
    \A id \in Ids :
        dismissTimeouts[id] # 0
        => /\ Resident(id)
           /\ notifications[id].visible
           /\ notifications[id].state \in AutoStates

\* C34: the timer armed for a resident item that is not paused is due at
\* stateStartedAt + options.duration (the default when none is given), which
\* is what pauseTimer takes the remaining time from.
C34_PauseBookkeeping ==
    \A id \in DOMAIN notifications :
        (~notifications[id].paused /\ dismissTimeouts[id] # 0)
        => \A i \in AutoTimers(id) :
              timers[i].due = notifications[id].stateStartedAt
                                 + OrElse(notifications[id].options.duration, DURATION_MS)

\* C35: every resident item that is visible, not paused, in success, error
\* or info, with a duration other than 0, has a dismiss timer armed.
C35_AutoDismissScheduled ==
    \A id \in DOMAIN notifications :
        (/\ notifications[id].visible
         /\ ~notifications[id].paused
         /\ notifications[id].state \in AutoStates
         /\ notifications[id].options.duration # <<0>>)
        => (dismissTimeouts[id] # 0 /\ AutoTimers(id) # {})

\* C32: callbacks fire once per dismissal: at most one deferred removal is
\* pending for an id, and a dismiss of an item that is resident and already
\* invisible invokes no onDismiss and queues no removal.
C32_OncePerDismissal ==
    [][\A id \in Ids :
         /\ Cardinality(Removals(timers', id)) <= 1
         /\ (Resident(id) /\ ~notifications[id].visible /\ DismissedAnyhow(events', id))
            => /\ CallbackAt(events', "onDismiss", id) = {}
               /\ Cardinality(Removals(timers', id)) = Cardinality(Removals(timers, id))]_vars

\* C36: resetStore() leaves the item map, the listener set and the timer
\* registry empty, and a callback that was pending at the reset and runs
\* later deletes no record, invokes no onClose or onDismiss and calls no
\* listener (the records and listeners it could reach were all made after
\* the reset).
C36_ResetIsolates ==
    /\ [][ResetStore
            => /\ notifications' = <<>>
               /\ listeners' = <<>>
               /\ \A id \in Ids : dismissTimeouts'[id] = 0]_vars
    /\ [][(stale' # stale /\ stale' \subseteq stale)
            => /\ DOMAIN notifications' = DOMAIN notifications
               /\ \A id \in Ids :
                     /\ CallbackAt(events', "onClose", id) = {}
                     /\ CallbackAt(events', "onDismiss", id) = {}
               /\ ListenerCalls(events') = <<>>]_vars

====
